---- MODULE Spec2Model ----
(***************************************************************************)
(* A model of lib/constructs/dify-services/api.ts: the two constructs      *)
(* ApiService (the primary service) and ConsoleService (the console        *)
(* service).  Each constructor is a linear pass of calls that grow a       *)
(* resource graph; the model runs the calls one statement at a time and    *)
(* then lets the container orchestrator and the operator act on the        *)
(* declared resources.                                                     *)
(*                                                                         *)
(* JavaScript objects with string keys are TLA+ records (functions on a    *)
(* set of strings); the empty object {} is the empty function << >>.       *)
(* Strings are TLA+ strings, joined with \o.  The one value whose text is  *)
(* computed character by character is ALLOWED_SYSCALLS: it is a sequence   *)
(* of one-character strings.                                               *)
(***************************************************************************)
EXTENDS Integers, Sequences, FiniteSets, TLC

VARIABLES
    props,           \* props[s]: the construction parameters of service s
    pc,              \* pc[s]: the statement the constructor of s is at
    taskDefinition,  \* taskDefinition[s]: the FargateTaskDefinition of s
    secrets,         \* the Secret constructs created so far
    fargateService,  \* fargateService[s]: the FargateService of s, or NoValue
    connections,     \* security-group rules: <<from, to>> on to's default port
    albServices,     \* the calls alb.addEcsService has received
    outputs,         \* CfnOutput name -> value
    desiredCount,    \* the orchestrator's desired count of each created service
    task,            \* task[s]: the running copy of s: status and capacity provider
    containerStatus, \* primary task: container name -> lifecycle status
    exitCode         \* primary task: the exit code of each container that has exited

vars == <<props, pc, taskDefinition, secrets, fargateService, connections,
          albServices, outputs, desiredCount, task, containerStatus, exitCode>>

Services == {"Api", "Console"}

\* An optional property that was not given (JavaScript's undefined).
NoValue == "undefined"

(***************************************************************************)
(* JavaScript helpers                                                      *)
(***************************************************************************)

\* { ...p, ...q }: every key of p and of q; on a key of both, q's value.
Spread(p, q) ==
    [k \in (DOMAIN p) \cup (DOMAIN q) |-> IF k \in DOMAIN q THEN q[k] ELSE p[k]]

\* Array(n).fill(v)
ArrayFill(n, v) == [i \in 1..n |-> v]

\* arr.map((_, i) => i): the element at (zero-based) index i becomes i.
MapToIndex(arr) == [i \in 1..Len(arr) |-> i - 1]

\* The decimal digit d as a character.
DigitChar(d) == <<"0", "1", "2", "3", "4", "5", "6", "7", "8", "9">>[d + 1]

\* Number.prototype.toString for a non-negative integer, as characters.
RECURSIVE NumberToString(_)
NumberToString(n) ==
    IF n < 10 THEN <<DigitChar(n)>>
    ELSE NumberToString(n \div 10) \o <<DigitChar(n % 10)>>

\* The texts of arr[lo..hi] with sep between neighbours (halving keeps the
\* evaluation shallow; the result is the left-to-right concatenation).
RECURSIVE JoinRange(_, _, _, _)
JoinRange(arr, sep, lo, hi) ==
    IF lo > hi THEN <<>>
    ELSE IF lo = hi THEN NumberToString(arr[lo])
    ELSE LET mid == (lo + hi) \div 2
         IN  JoinRange(arr, sep, lo, mid) \o <<sep>> \o JoinRange(arr, sep, mid + 1, hi)

\* arr.join(sep) for an array of numbers, as characters.
Join(arr, sep) == JoinRange(arr, sep, 1, Len(arr))

\* [...a, ...b]
Concat(a, b) == a \o b

\* a.map((p) => `${p}/*`)
MapWildcard(a) == [i \in 1..Len(a) |-> a[i] \o "/*"]

(***************************************************************************)
(* Handles of the collaborators (cluster, alb, postgres, redis, bucket):   *)
(* opaque values the constructs only pass on.                              *)
(***************************************************************************)
AlbUrl == "${alb.url}"
RedisEndpoint == "${redis.endpoint}"
RedisPort == "${redis.port}"
BucketName == "${storageBucket.bucketName}"
BucketRegion == "${Stack.of(storageBucket).region}"
PostgresDatabaseName == "${postgres.databaseName}"
PgVectorDatabaseName == "${postgres.pgVectorDatabaseName}"

\* ecs.Secret.fromSecretsManager(secret, field)
FromSecretsManagerField(secret, fld) ==
    [kind |-> "SecretsManager", secret |-> secret, field |-> fld]

\* ecs.Secret.fromSecretsManager(secret)
FromSecretsManager(secret) == [kind |-> "SecretsManager", secret |-> secret]

\* ecs.Secret.fromSsmParameter(parameter)
FromSsmParameter(parameter) == [kind |-> "SsmParameter", parameter |-> parameter]

\* ecs.ContainerImage.fromRegistry(name)
FromRegistry(name) == [kind |-> "registry", name |-> name]

\* ecs.ContainerImage.fromAsset(directory, options)
FromAsset(directory, options) ==
    [kind |-> "asset", directory |-> directory, options |-> options]

\* ecs.ContainerImage.fromEcrRepository(repository, tag)
FromEcrRepository(repository, tag) ==
    [kind |-> "ecr", repository |-> repository, tag |-> tag]

\* The ten database and cache credentials every application container gets.
DataStoreSecrets ==
    [DB_USERNAME       |-> FromSecretsManagerField("postgres.secret", "username"),
     DB_HOST           |-> FromSecretsManagerField("postgres.secret", "host"),
     DB_PORT           |-> FromSecretsManagerField("postgres.secret", "port"),
     DB_PASSWORD       |-> FromSecretsManagerField("postgres.secret", "password"),
     PGVECTOR_USER     |-> FromSecretsManagerField("postgres.secret", "username"),
     PGVECTOR_HOST     |-> FromSecretsManagerField("postgres.secret", "host"),
     PGVECTOR_PORT     |-> FromSecretsManagerField("postgres.secret", "port"),
     PGVECTOR_PASSWORD |-> FromSecretsManagerField("postgres.secret", "password"),
     REDIS_PASSWORD    |-> FromSecretsManager("redis.secret"),
     CELERY_BROKER_URL |-> FromSsmParameter("redis.brokerUrl")]

(***************************************************************************)
(* aws-cdk-lib calls the constructors make                                 *)
(***************************************************************************)

\* An optional property of an options object, with the library's default.
Opt(options, key, default) == IF key \in DOMAIN options THEN options[key] ELSE default

\* ecs.LogDriver.awsLogs({ streamPrefix: 'log' })
AwsLogs == [driver |-> "awslogs", streamPrefix |-> "log"]

\* new FargateTaskDefinition(this, 'Task', options): no container yet, and a
\* task role with no grant and no policy statement.
NewFargateTaskDefinition(options) ==
    [cpu |-> options.cpu,
     memoryLimitMiB |-> options.memoryLimitMiB,
     cpuArchitecture |-> options.runtimePlatform.cpuArchitecture,
     volumes |-> Opt(options, "volumes", <<>>),
     containers |-> <<>>,
     taskRole |-> [grants |-> {}, statements |-> <<>>]]

\* taskDefinition.addContainer(id, options): the container is appended to the
\* task definition under the name id; `essential` defaults to true, and the
\* container starts with no mount point and no dependency.
AddContainer(td, id, options) ==
    [td EXCEPT !.containers = Append(@,
        Spread(Spread([essential |-> TRUE, environment |-> <<>>, secrets |-> <<>>,
                       portMappings |-> <<>>],
                      options),
               [containerName |-> id, mountPoints |-> <<>>, dependsOn |-> <<>>]))]

\* The position of the container named id in the task definition.
IndexOf(td, id) ==
    CHOOSE i \in 1..Len(td.containers) : td.containers[i].containerName = id

\* The container named id of the task definition.
ContainerOf(td, id) == td.containers[IndexOf(td, id)]

\* container.addMountPoints(mountPoint)
AddMountPoints(td, id, mountPoint) ==
    [td EXCEPT !.containers[IndexOf(td, id)].mountPoints = Append(@, mountPoint)]

\* container.addContainerDependencies(dependency)
AddContainerDependencies(td, id, dependency) ==
    [td EXCEPT !.containers[IndexOf(td, id)].dependsOn = Append(@, dependency)]

\* storageBucket.grantReadWrite(taskDefinition.taskRole)
GrantReadWrite(td, bucket) ==
    [td EXCEPT !.taskRole.grants = @ \cup {[bucket |-> bucket, access |-> "ReadWrite"]}]

\* taskDefinition.taskRole.addToPrincipalPolicy(new PolicyStatement(statement))
AddToPrincipalPolicy(td, statement) ==
    [td EXCEPT !.taskRole.statements = Append(@, statement)]

(***************************************************************************)
(* ApiService: constants and container options                             *)
(***************************************************************************)
port == 5001
volumeName == "sandbox"
\* The length of the array ALLOWED_SYSCALLS is built from.
SyscallCount == 457

EncryptionSecret == "EncryptionSecret"

ApiTaskOptions ==
    [cpu |-> 1024,
     memoryLimitMiB |-> 2048,
     runtimePlatform |-> [cpuArchitecture |-> "X86_64"],
     volumes |-> <<[name |-> volumeName]>>]

ApiMainOptions(p) ==
    [image |-> FromRegistry("langgenius/dify-api:" \o p.imageTag),
     environment |->
        [MODE |-> "api",
         LOG_LEVEL |-> IF p.debug THEN "DEBUG" ELSE "ERROR",
         DEBUG |-> IF p.debug THEN "true" ELSE "false",
         CONSOLE_WEB_URL |-> AlbUrl,
         CONSOLE_API_URL |-> AlbUrl,
         SERVICE_API_URL |-> AlbUrl,
         APP_WEB_URL |-> AlbUrl,
         SQLALCHEMY_POOL_PRE_PING |-> "True",
         REDIS_HOST |-> RedisEndpoint,
         REDIS_PORT |-> RedisPort,
         REDIS_USE_SSL |-> "true",
         REDIS_DB |-> "0",
         WEB_API_CORS_ALLOW_ORIGINS |-> "*",
         CONSOLE_CORS_ALLOW_ORIGINS |-> "*",
         STORAGE_TYPE |-> "s3",
         S3_BUCKET_NAME |-> BucketName,
         S3_REGION |-> BucketRegion,
         DB_DATABASE |-> PostgresDatabaseName,
         VECTOR_STORE |-> "pgvector",
         PGVECTOR_DATABASE |-> PgVectorDatabaseName,
         CODE_EXECUTION_ENDPOINT |-> "http://localhost:8194",
         PLUGIN_DAEMON_URL |-> "http://localhost:5002"],
     logging |-> AwsLogs,
     portMappings |-> <<[containerPort |-> port]>>,
     secrets |-> Spread(DataStoreSecrets,
        [SECRET_KEY |-> FromSecretsManager(EncryptionSecret),
         CODE_EXECUTION_API_KEY |-> FromSecretsManager(EncryptionSecret),
         INNER_API_KEY_FOR_PLUGIN |-> FromSecretsManager(EncryptionSecret),
         PLUGIN_API_KEY |-> FromSecretsManager(EncryptionSecret)]),
     healthCheck |->
        [command |-> <<"CMD-SHELL",
                       "curl -f http://localhost:" \o ToString(port) \o "/health || exit 1">>,
         interval |-> 15,
         startPeriod |-> 30,
         timeout |-> 5,
         retries |-> 5]]

ApiWorkerOptions(p) ==
    [image |-> FromRegistry("langgenius/dify-api:" \o p.imageTag),
     environment |->
        [MODE |-> "worker",
         LOG_LEVEL |-> IF p.debug THEN "DEBUG" ELSE "ERROR",
         DEBUG |-> IF p.debug THEN "true" ELSE "false",
         MIGRATION_ENABLED |-> "true",
         SQLALCHEMY_POOL_PRE_PING |-> "True",
         REDIS_HOST |-> RedisEndpoint,
         REDIS_PORT |-> RedisPort,
         REDIS_USE_SSL |-> "true",
         REDIS_DB |-> "0",
         STORAGE_TYPE |-> "s3",
         S3_BUCKET_NAME |-> BucketName,
         S3_REGION |-> BucketRegion,
         DB_DATABASE |-> PostgresDatabaseName,
         VECTOR_STORE |-> "pgvector",
         PGVECTOR_DATABASE |-> PgVectorDatabaseName,
         PLUGIN_API_URL |-> "http://localhost:5002"],
     logging |-> AwsLogs,
     secrets |-> Spread(DataStoreSecrets,
        [SECRET_KEY |-> FromSecretsManager(EncryptionSecret),
         PLUGIN_API_KEY |-> FromSecretsManager(EncryptionSecret)])]

\* The initializer declared without essential: false.
SandboxFileMountOptionsEssential ==
    [image |-> FromAsset("docker/sandbox", [platform |-> "LINUX_AMD64"])]

SandboxFileMountOptions ==
    [image |-> FromAsset("docker/sandbox", [platform |-> "LINUX_AMD64"]),
     essential |-> FALSE]

\* The value of ALLOWED_SYSCALLS with the array one element short.
AllowedSyscallsShort == Join(MapToIndex(ArrayFill(SyscallCount - 1, 0)), ",")

\* Array(457).fill(0).map((_, i) => i).join(',')
AllowedSyscalls == Join(MapToIndex(ArrayFill(SyscallCount, 0)), ",")

PythonLibPath ==
    "/usr/local/lib/python3.10,/usr/lib/python3.10,/usr/lib/python3,"
    \o "/usr/lib/x86_64-linux-gnu,/etc/ssl/certs/ca-certificates.crt,"
    \o "/etc/nsswitch.conf,/etc/hosts,/etc/resolv.conf,"
    \o "/run/systemd/resolve/stub-resolv.conf,/run/resolvconf/resolv.conf"

\* The Sandbox options with the API key read from a secret of its own instead
\* of the shared one.
SandboxOptionsOwnKey(p) ==
    [image |-> FromRegistry("langgenius/dify-sandbox:" \o p.sandboxImageTag),
     environment |->
        Spread(Spread([GIN_MODE |-> "release",
                       WORKER_TIMEOUT |-> "15",
                       ENABLE_NETWORK |-> "true"],
                      IF p.allowAnySyscalls
                      THEN [ALLOWED_SYSCALLS |-> AllowedSyscalls]
                      ELSE <<>>),
               [PYTHON_LIB_PATH |-> PythonLibPath]),
     logging |-> AwsLogs,
     portMappings |-> <<[containerPort |-> 8194]>>,
     secrets |-> [API_KEY |-> FromSecretsManager("SandboxSecret")]]

\* The Sandbox options with the executor listening on the next port.
SandboxOptionsOtherPort(p) ==
    [image |-> FromRegistry("langgenius/dify-sandbox:" \o p.sandboxImageTag),
     environment |->
        Spread(Spread([GIN_MODE |-> "release",
                       WORKER_TIMEOUT |-> "15",
                       ENABLE_NETWORK |-> "true"],
                      IF p.allowAnySyscalls
                      THEN [ALLOWED_SYSCALLS |-> AllowedSyscalls]
                      ELSE <<>>),
               [PYTHON_LIB_PATH |-> PythonLibPath]),
     logging |-> AwsLogs,
     portMappings |-> <<[containerPort |-> 8195]>>,
     secrets |-> [API_KEY |-> FromSecretsManager(EncryptionSecret)]]

SandboxOptions(p) ==
    [image |-> FromRegistry("langgenius/dify-sandbox:" \o p.sandboxImageTag),
     environment |->
        Spread(Spread([GIN_MODE |-> "release",
                       WORKER_TIMEOUT |-> "15",
                       ENABLE_NETWORK |-> "true"],
                      IF p.allowAnySyscalls
                      THEN [ALLOWED_SYSCALLS |-> AllowedSyscalls]
                      ELSE <<>>),
               [PYTHON_LIB_PATH |-> PythonLibPath]),
     logging |-> AwsLogs,
     portMappings |-> <<[containerPort |-> 8194]>>,
     secrets |-> [API_KEY |-> FromSecretsManager(EncryptionSecret)]]

PluginDaemonOptions ==
    [image |-> FromRegistry("langgenius/dify-plugin-daemon:0.0.1-local"),
     environment |->
        [REDIS_HOST |-> RedisEndpoint,
         REDIS_PORT |-> RedisPort,
         REDIS_USE_SSL |-> "true",
         REDIS_DB |-> "0",
         VECTOR_STORE |-> "pgvector",
         PGVECTOR_DATABASE |-> PgVectorDatabaseName,
         CODE_EXECUTION_ENDPOINT |-> "http://localhost:8194",
         DB_DATABASE |-> "dify_plugin",
         SERVER_PORT |-> "5002",
         PLUGIN_STORAGE_TYPE |-> "local",
         PLUGIN_STORAGE_OSS_BUCKET |-> BucketName,
         MAX_PLUGIN_PACKAGE_SIZE |-> "52428800",
         DIFY_INNER_API_URL |-> "http://localhost:5001",
         PLUGIN_WORKING_PATH |-> "/app/storage/cwd",
         FORCE_VERIFYING_SIGNATURE |-> "true"],
     secrets |-> Spread(DataStoreSecrets,
        [SECRET_KEY |-> FromSecretsManager(EncryptionSecret),
         CODE_EXECUTION_API_KEY |-> FromSecretsManager(EncryptionSecret),
         DIFY_INNER_API_KEY |-> FromSecretsManager(EncryptionSecret),
         SERVER_KEY |-> FromSecretsManager(EncryptionSecret)]),
     logging |-> AwsLogs,
     portMappings |-> <<[containerPort |-> 5002]>>]

ExternalKnowledgeBaseAPIOptions(p) ==
    [image |-> FromAsset("docker/external-knowledge-api",
                         [platform |-> "LINUX_AMD64",
                          buildArgs |-> [DIFY_VERSION |-> p.sandboxImageTag]]),
     environment |-> [BEARER_TOKEN |-> "dummy-key", BEDROCK_REGION |-> "us-west-2"],
     logging |-> AwsLogs,
     portMappings |-> <<[containerPort |-> 8000]>>]

(***************************************************************************)
(* ConsoleService: container options                                       *)
(***************************************************************************)

\* getAdditionalEnvironmentVariables(this, target, additional): the entries
\* of the caller's map that carry a plain value, as key -> value.
getAdditionalEnvironmentVariables(target, additional) ==
    [k \in {x \in DOMAIN additional : "value" \in DOMAIN additional[x]} |->
        additional[k].value]

\* getAdditionalSecretVariables(this, target, additional): the entries of the
\* caller's map that carry a reference, as key -> ecs.Secret.
getAdditionalSecretVariables(target, additional) ==
    [k \in {x \in DOMAIN additional : "secret" \in DOMAIN additional[x]} |->
        additional[k].secret]

ConsoleTaskOptions ==
    [cpu |-> 1024,
     memoryLimitMiB |-> 2048,
     runtimePlatform |-> [cpuArchitecture |-> "X86_64"]]

\* The console container's own environment, before the caller's entries.
ConsoleBuiltinEnvironment ==
    [MODE |-> "api",
     CONSOLE_WEB_URL |-> AlbUrl,
     CONSOLE_API_URL |-> AlbUrl,
     SERVICE_API_URL |-> AlbUrl,
     APP_WEB_URL |-> AlbUrl,
     SQLALCHEMY_POOL_PRE_PING |-> "True",
     REDIS_HOST |-> RedisEndpoint,
     REDIS_PORT |-> RedisPort,
     REDIS_USE_SSL |-> "true",
     REDIS_DB |-> "0",
     WEB_API_CORS_ALLOW_ORIGINS |-> "*",
     CONSOLE_CORS_ALLOW_ORIGINS |-> "*",
     STORAGE_TYPE |-> "s3",
     S3_BUCKET_NAME |-> BucketName,
     S3_REGION |-> BucketRegion,
     S3_USE_AWS_MANAGED_IAM |-> "true",
     DB_DATABASE |-> PostgresDatabaseName,
     VECTOR_STORE |-> "pgvector",
     PGVECTOR_DATABASE |-> PgVectorDatabaseName,
     CODE_EXECUTION_ENDPOINT |-> "http://localhost:8194"]

\* The console container's environment with the spread the other way round:
\* { ...additional, ...builtin }, the built-in value winning.
ConsoleEnvironmentBuiltinWins(p) ==
    Spread(getAdditionalEnvironmentVariables("api", p.additionalEnvironmentVariables),
           ConsoleBuiltinEnvironment)

ConsoleEnvironment(p) ==
    Spread(ConsoleBuiltinEnvironment,
           getAdditionalEnvironmentVariables("api", p.additionalEnvironmentVariables))

ConsoleSecrets(p) ==
    Spread(DataStoreSecrets,
           getAdditionalSecretVariables("api", p.additionalEnvironmentVariables))

ConsoleMainOptions(p) ==
    [image |-> IF p.customRepository # NoValue
               THEN FromEcrRepository(p.customRepository, "dify-api_" \o p.imageTag)
               ELSE FromRegistry("langgenius/dify-api:" \o p.imageTag),
     environment |-> ConsoleEnvironment(p),
     logging |-> AwsLogs,
     secrets |-> ConsoleSecrets(p),
     entryPoint |-> <<"tail">>,
     command |-> <<"-f", "/dev/null">>]

(***************************************************************************)
(* Task role policies, services, routing, outputs                          *)
(***************************************************************************)
ApiPolicyStatement ==
    [actions |-> <<"bedrock:InvokeModel", "bedrock:InvokeModelWithResponseStream",
                   "bedrock:Rerank", "bedrock:Retrieve">>,
     resources |-> <<"*">>]

ConsolePolicyStatement ==
    [actions |-> <<"bedrock:InvokeModel", "bedrock:InvokeModelWithResponseStream",
                   "bedrock:Rerank", "bedrock:Retrieve", "bedrock:RetrieveAndGenerate">>,
     resources |-> <<"*">>]

\* new ecs.FargateService(this, 'FargateService', options): the options as
\* given (an option left out stays out), bound to the task definition of s.
NewFargateService(s, options) ==
    Spread(Spread([enableExecuteCommand |-> FALSE], options), [taskDefinition |-> s])

\* The primary service's options with the two weights exchanged.
ApiServiceOptionsOnDemand ==
    [capacityProviderStrategies |->
        <<[capacityProvider |-> "FARGATE", weight |-> 1],
          [capacityProvider |-> "FARGATE_SPOT", weight |-> 0]>>,
     enableExecuteCommand |-> TRUE]

ApiServiceOptions ==
    [capacityProviderStrategies |->
        <<[capacityProvider |-> "FARGATE", weight |-> 0],
          [capacityProvider |-> "FARGATE_SPOT", weight |-> 1]>>,
     enableExecuteCommand |-> TRUE]

\* The console service's options with one copy wanted from the start.
ConsoleServiceOptionsOneCopy ==
    [capacityProviderStrategies |->
        <<[capacityProvider |-> "FARGATE", weight |-> 1],
          [capacityProvider |-> "FARGATE_SPOT", weight |-> 0]>>,
     enableExecuteCommand |-> TRUE,
     minHealthyPercent |-> 0,
     desiredCount |-> 1]

ConsoleServiceOptions ==
    [capacityProviderStrategies |->
        <<[capacityProvider |-> "FARGATE", weight |-> 1],
          [capacityProvider |-> "FARGATE_SPOT", weight |-> 0]>>,
     enableExecuteCommand |-> TRUE,
     minHealthyPercent |-> 0,
     desiredCount |-> 0]

\* The path patterns without the map to the wildcard forms.
ApiPathPatternsNoWildcard == <<"/console/api", "/api", "/v1", "/files">>

\* [...paths, ...paths.map((p) => `${p}/*`)]
ApiPathPatterns ==
    LET paths == <<"/console/api", "/api", "/v1", "/files">>
    IN  Concat(paths, MapWildcard(paths))

Region == "${Stack.of(this).region}"
ClusterName == "${cluster.clusterName}"
ServiceName(s) == "${" \o s \o ".service.serviceName}"

\* The texts of the four CfnOutput values, word by word.
ConsoleStartServiceCommand ==
    <<"aws", "ecs", "update-service", "--region", Region, "--cluster", ClusterName,
      "--service", ServiceName("Console"), "--desired-count", "1">>

ConsoleStopServiceCommand ==
    <<"aws", "ecs", "update-service", "--region", Region, "--cluster", ClusterName,
      "--service", ServiceName("Console"), "--desired-count", "0">>

ConsoleListTasksCommand ==
    <<"aws", "ecs", "list-tasks", "--region", Region, "--cluster", ClusterName,
      "--service-name", ServiceName("Console"), "--desired-status", "RUNNING">>

\* The printed text carries the double quotes around bash: split at spaces,
\* the word after --command is the six characters "bash", quotes included.
ConsoleConnectToTaskCommand ==
    <<"aws", "ecs", "execute-command", "--region", Region, "--cluster", ClusterName,
      "--container", "Main", "--interactive", "--command", "\"bash\"", "--task", "TASK_ID">>

(***************************************************************************)
(* Construction parameters                                                 *)
(***************************************************************************)
ImageTags == {"1.0.0", "latest"}

SandboxImageTags == {"0.2.10", "latest"}

\* The caller's additional variables: none; plain values, one on a built-in
\* key; references, one on a built-in key.
AdditionalChoices ==
    {<<>>,
     [MODE |-> [value |-> "console"],
      EXTRA_FLAG |-> [value |-> "1"],
      EXTRA_TOKEN |-> [secret |-> FromSsmParameter("extra.token")]],
     [DB_PASSWORD |-> [secret |-> FromSecretsManager("override.secret")],
      LOG_LEVEL |-> [value |-> "INFO"]]}

\* ApiServiceProps: debug is optional.  ApiServiceProps declares no
\* additionalEnvironmentVariables; a caller that holds such a map can still
\* hand it over in the props object, where the constructor never reads it.
ApiPropsChoices ==
    [imageTag : ImageTags, sandboxImageTag : SandboxImageTags, allowAnySyscalls : BOOLEAN]
    \cup [imageTag : ImageTags, sandboxImageTag : SandboxImageTags,
          allowAnySyscalls : BOOLEAN, debug : {TRUE}]
    \cup [imageTag : {"latest"}, sandboxImageTag : {"latest"}, allowAnySyscalls : {FALSE},
          debug : {FALSE}, additionalEnvironmentVariables : AdditionalChoices \ {<<>>}]

\* const { ..., debug = false } = props, and the rest of props as given.
ApiDestructure(p) ==
    [imageTag |-> p.imageTag,
     sandboxImageTag |-> p.sandboxImageTag,
     allowAnySyscalls |-> p.allowAnySyscalls,
     debug |-> Opt(p, "debug", FALSE)]

\* ConsoleServiceProps: customRepository is optional.
ConsolePropsChoices ==
    [imageTag : {"latest"},
     customRepository : {NoValue, "customRepository"},
     additionalEnvironmentVariables : AdditionalChoices]

(***************************************************************************)
(* The constructors, statement by statement.  pc[s] names the statement    *)
(* the constructor of s runs next.  A constructor runs from its first      *)
(* statement to its last without the other one running in between.         *)
(***************************************************************************)
FirstStatement == "Task"


Other(s) == CHOOSE o \in Services : o # s

\* The constructor of s may run its next statement: the other constructor
\* has not begun or has returned.
MayRun(s) == pc[Other(s)] \in {FirstStatement, "done"}

\* The constructor of s moves from one statement to the next.
Goto(s, from, to) ==
    /\ pc[s] = from
    /\ MayRun(s)
    /\ pc' = [pc EXCEPT ![s] = to]

runVars == <<desiredCount, task, containerStatus, exitCode>>

Init ==
    /\ props = [s \in Services |-> <<>>]
    /\ pc = [s \in Services |-> FirstStatement]
    /\ taskDefinition = [s \in Services |-> <<>>]
    /\ secrets = {}
    /\ fargateService = [s \in Services |-> <<>>]
    /\ connections = {}
    /\ albServices = <<>>
    /\ outputs = <<>>
    /\ desiredCount = <<>>
    /\ task = [s \in Services |-> [status |-> "NONE", capacityProvider |-> NoValue]]
    /\ containerStatus = <<>>
    /\ exitCode = <<>>

\* --- ApiService.constructor ------------------------------------------------

\* new ApiService(scope, id, p) is entered and makes its task definition.
ApiTask ==
    /\ Goto("Api", "Task", "EncryptionSecret")
    /\ \E p \in ApiPropsChoices : props' = [props EXCEPT !["Api"] = p]
    /\ taskDefinition' = [taskDefinition EXCEPT !["Api"] = NewFargateTaskDefinition(ApiTaskOptions)]
    /\ UNCHANGED <<secrets, fargateService, connections, albServices, outputs, runVars>>

ApiEncryptionSecret ==
    /\ Goto("Api", "EncryptionSecret", "Main")
    /\ secrets' = secrets \cup {[id |-> EncryptionSecret, passwordLength |-> 42]}
    /\ UNCHANGED <<props, taskDefinition, fargateService, connections, albServices, outputs, runVars>>

\* One taskDefinition.addContainer statement of the ApiService constructor.
ApiAddContainer(from, to, id, options) ==
    /\ Goto("Api", from, to)
    /\ taskDefinition' = [taskDefinition EXCEPT !["Api"] = AddContainer(@, id, options)]
    /\ UNCHANGED <<props, secrets, fargateService, connections, albServices, outputs, runVars>>

ApiMain ==
    ApiAddContainer("Main", "Worker", "Main", ApiMainOptions(ApiDestructure(props["Api"])))

ApiWorker ==
    ApiAddContainer("Worker", "SandboxFileMount", "Worker",
                    ApiWorkerOptions(ApiDestructure(props["Api"])))

ApiSandboxFileMount ==
    ApiAddContainer("SandboxFileMount", "Sandbox", "SandboxFileMount", SandboxFileMountOptions)

ApiSandbox ==
    ApiAddContainer("Sandbox", "SandboxFileMountPoints", "Sandbox",
                    SandboxOptions(ApiDestructure(props["Api"])))

SandboxFileMountPoint ==
    [containerPath |-> "/dependencies", sourceVolume |-> volumeName, readOnly |-> FALSE]

SandboxMountPoint ==
    [containerPath |-> "/dependencies", sourceVolume |-> volumeName, readOnly |-> TRUE]

\* The Sandbox's dependency with the condition START.
SandboxDependencyStart == [container |-> "SandboxFileMount", condition |-> "START"]

SandboxDependency == [container |-> "SandboxFileMount", condition |-> "COMPLETE"]

ApiSandboxFileMountPoints ==
    /\ Goto("Api", "SandboxFileMountPoints", "SandboxMountPoints")
    /\ taskDefinition' = [taskDefinition EXCEPT
            !["Api"] = AddMountPoints(@, "SandboxFileMount", SandboxFileMountPoint)]
    /\ UNCHANGED <<props, secrets, fargateService, connections, albServices, outputs, runVars>>

ApiSandboxMountPoints ==
    /\ Goto("Api", "SandboxMountPoints", "SandboxDependencies")
    /\ taskDefinition' = [taskDefinition EXCEPT
            !["Api"] = AddMountPoints(@, "Sandbox", SandboxMountPoint)]
    /\ UNCHANGED <<props, secrets, fargateService, connections, albServices, outputs, runVars>>

ApiSandboxDependencies ==
    /\ Goto("Api", "SandboxDependencies", "PluginDaemon")
    /\ taskDefinition' = [taskDefinition EXCEPT
            !["Api"] = AddContainerDependencies(@, "Sandbox", SandboxDependency)]
    /\ UNCHANGED <<props, secrets, fargateService, connections, albServices, outputs, runVars>>

ApiPluginDaemon ==
    ApiAddContainer("PluginDaemon", "ExternalKnowledgeBaseAPI", "PluginDaemon",
                    PluginDaemonOptions)

\* The constructor without its last addContainer statement.
ApiExternalKnowledgeBaseAPIOmitted ==
    /\ Goto("Api", "ExternalKnowledgeBaseAPI", "GrantReadWrite")
    /\ UNCHANGED <<props, taskDefinition, secrets, fargateService, connections, albServices,
                   outputs, runVars>>

ApiExternalKnowledgeBaseAPI ==
    ApiAddContainer("ExternalKnowledgeBaseAPI", "GrantReadWrite", "ExternalKnowledgeBaseAPI",
                    ExternalKnowledgeBaseAPIOptions(ApiDestructure(props["Api"])))

ApiGrantReadWrite ==
    /\ Goto("Api", "GrantReadWrite", "AddToPrincipalPolicy")
    /\ taskDefinition' = [taskDefinition EXCEPT !["Api"] = GrantReadWrite(@, "storageBucket")]
    /\ UNCHANGED <<props, secrets, fargateService, connections, albServices, outputs, runVars>>

ApiAddToPrincipalPolicy ==
    /\ Goto("Api", "AddToPrincipalPolicy", "FargateService")
    /\ taskDefinition' = [taskDefinition EXCEPT
            !["Api"] = AddToPrincipalPolicy(@, ApiPolicyStatement)]
    /\ UNCHANGED <<props, secrets, fargateService, connections, albServices, outputs, runVars>>

ApiFargateService ==
    /\ Goto("Api", "FargateService", "AllowToPostgres")
    /\ fargateService' = [fargateService EXCEPT
            !["Api"] = NewFargateService("Api", ApiServiceOptions)]
    /\ UNCHANGED <<props, taskDefinition, secrets, connections, albServices, outputs, runVars>>

\* service.connections.allowToDefaultPort(postgres)
ApiAllowToPostgres ==
    /\ Goto("Api", "AllowToPostgres", "AllowToRedis")
    /\ connections' = connections \cup
            {[from |-> "Api", to |-> "postgres", declaredOn |-> "Api"]}
    /\ UNCHANGED <<props, taskDefinition, secrets, fargateService, albServices, outputs, runVars>>

\* service.connections.allowToDefaultPort(redis)
ApiAllowToRedis ==
    /\ Goto("Api", "AllowToRedis", "AddEcsService")
    /\ connections' = connections \cup
            {[from |-> "Api", to |-> "redis", declaredOn |-> "Api"]}
    /\ UNCHANGED <<props, taskDefinition, secrets, fargateService, albServices, outputs, runVars>>

\* alb.addEcsService('Api', service, port, '/health', [...])
ApiAddEcsService ==
    /\ Goto("Api", "AddEcsService", "done")
    /\ albServices' = Append(albServices,
            [id |-> "Api", service |-> "Api", port |-> port, healthCheckPath |-> "/health",
             paths |-> ApiPathPatterns])
    /\ UNCHANGED <<props, taskDefinition, secrets, fargateService, connections, outputs, runVars>>

\* --- ConsoleService.constructor --------------------------------------------

\* new ConsoleService(scope, id, p) is entered and makes its task definition.
ConsoleTask ==
    /\ Goto("Console", "Task", "Main")
    /\ \E p \in ConsolePropsChoices : props' = [props EXCEPT !["Console"] = p]
    /\ taskDefinition' = [taskDefinition EXCEPT
            !["Console"] = NewFargateTaskDefinition(ConsoleTaskOptions)]
    /\ UNCHANGED <<secrets, fargateService, connections, albServices, outputs, runVars>>

ConsoleMain ==
    /\ Goto("Console", "Main", "GrantReadWrite")
    /\ taskDefinition' = [taskDefinition EXCEPT
            !["Console"] = AddContainer(@, "Main", ConsoleMainOptions(props["Console"]))]
    /\ UNCHANGED <<props, secrets, fargateService, connections, albServices, outputs, runVars>>

ConsoleGrantReadWrite ==
    /\ Goto("Console", "GrantReadWrite", "AddToPrincipalPolicy")
    /\ taskDefinition' = [taskDefinition EXCEPT
            !["Console"] = GrantReadWrite(@, "storageBucket")]
    /\ UNCHANGED <<props, secrets, fargateService, connections, albServices, outputs, runVars>>

ConsoleAddToPrincipalPolicy ==
    /\ Goto("Console", "AddToPrincipalPolicy", "FargateService")
    /\ taskDefinition' = [taskDefinition EXCEPT
            !["Console"] = AddToPrincipalPolicy(@, ConsolePolicyStatement)]
    /\ UNCHANGED <<props, secrets, fargateService, connections, albServices, outputs, runVars>>

ConsoleFargateService ==
    /\ Goto("Console", "FargateService", "AllowFromConsole")
    /\ fargateService' = [fargateService EXCEPT
            !["Console"] = NewFargateService("Console", ConsoleServiceOptions)]
    /\ UNCHANGED <<props, taskDefinition, secrets, connections, albServices, outputs, runVars>>

\* postgres.connections.allowDefaultPortFrom(service);
\* redis.connections.allowDefaultPortFrom(service)
ConsoleAllowFromConsole ==
    /\ Goto("Console", "AllowFromConsole", "Outputs")
    /\ connections' = connections \cup
            {[from |-> "Console", to |-> "postgres", declaredOn |-> "postgres"],
             [from |-> "Console", to |-> "redis", declaredOn |-> "redis"]}
    /\ UNCHANGED <<props, taskDefinition, secrets, fargateService, albServices, outputs, runVars>>

\* The four new CfnOutput(...) statements.
ConsoleOutputs ==
    /\ Goto("Console", "Outputs", "done")
    /\ outputs' = [ConsoleStartServiceCommand |-> ConsoleStartServiceCommand,
                   ConsoleStopServiceCommand |-> ConsoleStopServiceCommand,
                   ConsoleListTasksCommand |-> ConsoleListTasksCommand,
                   ConsoleConnectToTaskCommand |-> ConsoleConnectToTaskCommand]
    /\ UNCHANGED <<props, taskDefinition, secrets, fargateService, connections, albServices, runVars>>

Construct ==
    \/ ApiTask \/ ApiEncryptionSecret \/ ApiMain \/ ApiWorker \/ ApiSandboxFileMount
    \/ ApiSandbox \/ ApiSandboxFileMountPoints \/ ApiSandboxMountPoints
    \/ ApiSandboxDependencies \/ ApiPluginDaemon \/ ApiExternalKnowledgeBaseAPI
    \/ ApiGrantReadWrite \/ ApiAddToPrincipalPolicy \/ ApiFargateService
    \/ ApiAllowToPostgres \/ ApiAllowToRedis \/ ApiAddEcsService
    \/ ConsoleTask \/ ConsoleMain \/ ConsoleGrantReadWrite \/ ConsoleAddToPrincipalPolicy
    \/ ConsoleFargateService \/ ConsoleAllowFromConsole \/ ConsoleOutputs

(***************************************************************************)
(* The orchestrator and the operator, acting on what was declared.  The    *)
(* stack is deployed once both constructors have returned.  Container      *)
(* lifecycles are followed for the primary task, whose containers depend   *)
(* on one another; the console's single copy is followed as a whole.       *)
(***************************************************************************)

\* The largest exit code followed: a container exits with 0..MaxExitCode.
MaxExitCode == 1

\* The desired count the provider gives a service declared without one.
DefaultDesiredCount == 1

Deployed == DOMAIN desiredCount = Services

\* The desired count a service is created with.
InitialDesiredCount(s) ==
    IF "desiredCount" \in DOMAIN fargateService[s]
    THEN fargateService[s].desiredCount
    ELSE DefaultDesiredCount

Deploy ==
    /\ \A s \in Services : pc[s] = "done"
    /\ ~Deployed
    /\ desiredCount' = [s \in Services |-> InitialDesiredCount(s)]
    /\ UNCHANGED <<props, pc, taskDefinition, secrets, fargateService, connections,
                   albServices, outputs, task, containerStatus, exitCode>>

\* The capacity providers a new copy of s may be placed on: with no base,
\* copies are spread in proportion to the weights, so a provider of weight 0
\* gets none.
PlacementChoices(s) ==
    LET strategies == fargateService[s].capacityProviderStrategies
    IN  {strategies[i].capacityProvider :
            i \in {j \in 1..Len(strategies) : strategies[j].weight > 0}}

ContainerNames(s) ==
    {taskDefinition[s].containers[i].containerName : i \in 1..Len(taskDefinition[s].containers)}

\* The service controller starts a copy of s while fewer run than desired.
\* The containers of the copy that depend on no other are started with it;
\* the others wait.
LaunchTask(s) ==
    /\ Deployed
    /\ desiredCount[s] > 0
    /\ task[s].status # "RUNNING"
    /\ \E cp \in PlacementChoices(s) :
          task' = [task EXCEPT ![s] = [status |-> "RUNNING", capacityProvider |-> cp]]
    /\ IF s = "Api"
       THEN /\ containerStatus' = [c \in ContainerNames(s) |->
                    IF ContainerOf(taskDefinition[s], c).dependsOn = <<>>
                    THEN "RUNNING" ELSE "PENDING"]
            /\ exitCode' = <<>>
       ELSE UNCHANGED <<containerStatus, exitCode>>
    /\ UNCHANGED <<props, pc, taskDefinition, secrets, fargateService, connections,
                   albServices, outputs, desiredCount>>

\* The service controller stops and removes the copy of s when none is
\* desired.
StopTask(s) ==
    /\ Deployed
    /\ desiredCount[s] = 0
    /\ task[s].status = "RUNNING"
    /\ task' = [task EXCEPT ![s] = [status |-> "NONE", capacityProvider |-> NoValue]]
    /\ IF s = "Api"
       THEN containerStatus' = <<>> /\ exitCode' = <<>>
       ELSE UNCHANGED <<containerStatus, exitCode>>
    /\ UNCHANGED <<props, pc, taskDefinition, secrets, fargateService, connections,
                   albServices, outputs, desiredCount>>

\* Whether a declared dependency lets the dependent container start:
\* START: the dependency has started; COMPLETE: it has run to completion;
\* SUCCESS: it has exited with code 0; HEALTHY: it runs and has a health
\* check (the check's outcome is not followed).
DependencySatisfied(dep) ==
    CASE dep.condition = "START" -> containerStatus[dep.container] # "PENDING"
      [] dep.condition = "COMPLETE" -> containerStatus[dep.container] = "EXITED"
      [] dep.condition = "SUCCESS" ->
            /\ containerStatus[dep.container] = "EXITED"
            /\ dep.container \in DOMAIN exitCode
            /\ exitCode[dep.container] = 0
      [] dep.condition = "HEALTHY" ->
            /\ containerStatus[dep.container] = "RUNNING"
            /\ "healthCheck" \in DOMAIN ContainerOf(taskDefinition["Api"], dep.container)

\* The agent starts a pending container of the primary task once each of its
\* dependencies is satisfied.
StartContainer(c) ==
    /\ task["Api"].status = "RUNNING"
    /\ c \in DOMAIN containerStatus
    /\ containerStatus[c] = "PENDING"
    /\ LET deps == ContainerOf(taskDefinition["Api"], c).dependsOn
       IN  \A i \in 1..Len(deps) : DependencySatisfied(deps[i])
    /\ containerStatus' = [containerStatus EXCEPT ![c] = "RUNNING"]
    /\ UNCHANGED <<props, pc, taskDefinition, secrets, fargateService, connections,
                   albServices, outputs, desiredCount, task, exitCode>>

\* A running container of the primary task exits.  The exit of an essential
\* container stops the task and with it every container still running.
ExitContainer(c, code) ==
    /\ task["Api"].status = "RUNNING"
    /\ c \in DOMAIN containerStatus
    /\ containerStatus[c] = "RUNNING"
    /\ exitCode' = (c :> code) @@ exitCode
    /\ IF ContainerOf(taskDefinition["Api"], c).essential
       THEN /\ containerStatus' = [d \in DOMAIN containerStatus |->
                    IF d = c THEN "EXITED"
                    ELSE IF containerStatus[d] = "RUNNING" THEN "STOPPED"
                    ELSE containerStatus[d]]
            /\ task' = [task EXCEPT !["Api"].status = "STOPPED"]
       ELSE /\ containerStatus' = [containerStatus EXCEPT ![c] = "EXITED"]
            /\ UNCHANGED task
    /\ UNCHANGED <<props, pc, taskDefinition, secrets, fargateService, connections,
                   albServices, outputs, desiredCount>>

\* The word after flag in a command.
ArgOf(argv, flag) == argv[(CHOOSE i \in 1..Len(argv) : argv[i] = flag) + 1]

\* A count given on a command line.
CountOf(word) == CASE word = "0" -> 0 [] word = "1" -> 1

\* The operator runs one of the printed commands that change the service:
\* update-service sets the desired count of the service it names.  (list-tasks
\* and execute-command read and change nothing.)
RunCommand(name) ==
    /\ Deployed
    /\ name \in DOMAIN outputs
    /\ outputs[name][3] = "update-service"
    /\ LET argv == outputs[name]
           s == CHOOSE x \in Services : ServiceName(x) = ArgOf(argv, "--service")
       IN  desiredCount' = [desiredCount EXCEPT
                ![s] = CountOf(ArgOf(argv, "--desired-count"))]
    /\ UNCHANGED <<props, pc, taskDefinition, secrets, fargateService, connections,
                   albServices, outputs, task, containerStatus, exitCode>>

AllContainerNames ==
    {"Main", "Worker", "SandboxFileMount", "Sandbox", "PluginDaemon",
     "ExternalKnowledgeBaseAPI"}

OutputNames ==
    {"ConsoleStartServiceCommand", "ConsoleStopServiceCommand",
     "ConsoleListTasksCommand", "ConsoleConnectToTaskCommand"}

Run ==
    \/ Deploy
    \/ \E s \in Services : LaunchTask(s)
    \/ \E s \in Services : StopTask(s)
    \/ \E c \in AllContainerNames : StartContainer(c)
    \/ \E c \in AllContainerNames, code \in 0..MaxExitCode : ExitContainer(c, code)
    \/ \E name \in OutputNames : RunCommand(name)

Next == Construct \/ Run

Spec == Init /\ [][Next]_vars

(***************************************************************************)
(* Properties                                                              *)
(***************************************************************************)
Api == taskDefinition["Api"]
Console == taskDefinition["Console"]

\* The constructor of s has returned.
Built(s) == pc[s] = "done"

\* The containers declared so far on the task definition of s.
Declared(s) ==
    IF "containers" \in DOMAIN taskDefinition[s]
    THEN {taskDefinition[s].containers[i] : i \in 1..Len(taskDefinition[s].containers)}
    ELSE {}

\* C1: in the primary task the Sandbox container has exactly one startup
\* dependency, on SandboxFileMount with condition COMPLETE, whatever the
\* construction parameters; and in every run of the task the Sandbox has not
\* started unless SandboxFileMount has run to completion.
C1_SandboxStartsAfterFileMountCompletes ==
    /\ \A c \in Declared("Api") :
          c.containerName = "Sandbox" =>
             /\ Len(c.dependsOn) <= 1
             /\ \A i \in 1..Len(c.dependsOn) :
                   /\ c.dependsOn[i].container = "SandboxFileMount"
                   /\ c.dependsOn[i].condition = "COMPLETE"
                   /\ c.dependsOn[i].condition \notin {"HEALTHY", "START", "SUCCESS"}
    /\ Built("Api") => Len(ContainerOf(Api, "Sandbox").dependsOn) = 1
    /\ "Sandbox" \in DOMAIN containerStatus =>
          (containerStatus["Sandbox"] # "PENDING" =>
              containerStatus["SandboxFileMount"] = "EXITED")

\* The Sandbox runs in a task whose SandboxFileMount has exited.
C1_Witness ==
    /\ "Sandbox" \in DOMAIN containerStatus
    /\ containerStatus["Sandbox"] = "RUNNING"
    /\ containerStatus["SandboxFileMount"] = "EXITED"

\* The names of the containers of a task definition, in declaration order.
NameList(td) == [i \in 1..Len(td.containers) |-> td.containers[i].containerName]

\* C2: after construction, with any props, the primary task definition
\* declares exactly the six containers Main, Worker, SandboxFileMount,
\* Sandbox, PluginDaemon and ExternalKnowledgeBaseAPI, each once.
C2_ExactlySixContainers ==
    Built("Api") =>
       /\ Len(NameList(Api)) = 6
       /\ {NameList(Api)[i] : i \in 1..6} =
             {"Main", "Worker", "SandboxFileMount", "Sandbox", "PluginDaemon",
              "ExternalKnowledgeBaseAPI"}
       /\ \A i, j \in 1..6 : NameList(Api)[i] = NameList(Api)[j] => i = j

\* The primary service was built with debug given and any syscall allowed.
C2_Witness ==
    /\ Built("Api")
    /\ "debug" \in DOMAIN props["Api"]
    /\ props["Api"].allowAnySyscalls
    /\ props["Api"].imageTag # props["Api"].sandboxImageTag

\* The value of a decimal digit character, and -1 for any other character.
DigitValue(ch) ==
    CASE ch = "0" -> 0 [] ch = "1" -> 1 [] ch = "2" -> 2 [] ch = "3" -> 3
      [] ch = "4" -> 4 [] ch = "5" -> 5 [] ch = "6" -> 6 [] ch = "7" -> 7
      [] ch = "8" -> 8 [] ch = "9" -> 9 [] OTHER -> -1

\* How many characters the decimal text of n < 1000 has.
DecimalWidth(n) == IF n < 10 THEN 1 ELSE IF n < 100 THEN 2 ELSE 3

\* Where the text of n begins in "0,1,2,...": after the texts of 0..n-1 and
\* their n commas.
OffsetOf(n) ==
    IF n < 10 THEN 2 * n
    ELSE IF n < 100 THEN 20 + 3 * (n - 10)
    ELSE 290 + 4 * (n - 100)

\* The number written by the w decimal digits of text after position off, or
\* -1 when one of them is no digit or the text has a leading zero.
NumberAt(text, off, w) ==
    LET d1 == DigitValue(text[off + 1])
        d2 == DigitValue(text[off + 2])
        d3 == DigitValue(text[off + 3])
    IN  CASE w = 1 -> d1
          [] w = 2 -> IF d1 < 1 \/ d2 < 0 THEN -1 ELSE 10 * d1 + d2
          [] w = 3 -> IF d1 < 1 \/ d2 < 0 \/ d3 < 0 THEN -1
                      ELSE 100 * d1 + 10 * d2 + d3

\* text is the decimal texts of 0, 1, ..., count-1 in ascending order, one
\* comma between neighbours and nothing else (count <= 1000).
IsCommaJoinedRange(text, count) ==
    /\ Len(text) = OffsetOf(count) - 1
    /\ \A n \in 0..(count - 1) :
          /\ NumberAt(text, OffsetOf(n), DecimalWidth(n)) = n
          /\ n < count - 1 => text[OffsetOf(n) + DecimalWidth(n) + 1] = ","

\* C3: the Sandbox environment holds ALLOWED_SYSCALLS exactly when
\* allowAnySyscalls is true, and then its value is 0,1,...,456: every integer
\* from 0 to 456 once, ascending, comma-joined; GIN_MODE, WORKER_TIMEOUT,
\* ENABLE_NETWORK and PYTHON_LIB_PATH are the same in both cases.
C3_AllowedSyscalls ==
    \A c \in Declared("Api") :
       c.containerName = "Sandbox" =>
          /\ c.environment.GIN_MODE = "release"
          /\ c.environment.WORKER_TIMEOUT = "15"
          /\ c.environment.ENABLE_NETWORK = "true"
          /\ c.environment.PYTHON_LIB_PATH =
                "/usr/local/lib/python3.10,/usr/lib/python3.10,/usr/lib/python3,/usr/lib/x86_64-linux-gnu,/etc/ssl/certs/ca-certificates.crt,/etc/nsswitch.conf,/etc/hosts,/etc/resolv.conf,/run/systemd/resolve/stub-resolv.conf,/run/resolvconf/resolv.conf"
          /\ IF props["Api"].allowAnySyscalls
             THEN /\ DOMAIN c.environment =
                        {"GIN_MODE", "WORKER_TIMEOUT", "ENABLE_NETWORK", "PYTHON_LIB_PATH",
                         "ALLOWED_SYSCALLS"}
                  /\ IsCommaJoinedRange(c.environment.ALLOWED_SYSCALLS, 457)
                  /\ c.environment.ALLOWED_SYSCALLS[1] = "0"
                  /\ SubSeq(c.environment.ALLOWED_SYSCALLS,
                            Len(c.environment.ALLOWED_SYSCALLS) - 3,
                            Len(c.environment.ALLOWED_SYSCALLS)) = <<",", "4", "5", "6">>
             ELSE DOMAIN c.environment =
                     {"GIN_MODE", "WORKER_TIMEOUT", "ENABLE_NETWORK", "PYTHON_LIB_PATH"}

\* A primary service built with allowAnySyscalls: the Sandbox carries the
\* allow-list, 1717 characters long.
C3_Witness ==
    /\ Built("Api")
    /\ props["Api"].allowAnySyscalls
    /\ Len(ContainerOf(Api, "Sandbox").environment.ALLOWED_SYSCALLS) = 1717

\* C4: the primary service registers with the load balancer exactly the eight
\* patterns p and p/* for p in /console/api, /api, /v1, /files, on container
\* port 5001 with health-check path /health, whatever the props.
C4_RoutingPatterns ==
    /\ Len(albServices) <= 1
    /\ Built("Api") <=> Len(albServices) = 1
    /\ \A i \in 1..Len(albServices) :
          /\ albServices[i].service = "Api"
          /\ albServices[i].port = 5001
          /\ albServices[i].healthCheckPath = "/health"
          /\ Len(albServices[i].paths) = 8
          /\ {albServices[i].paths[k] : k \in 1..Len(albServices[i].paths)} =
                {"/console/api", "/console/api/*", "/api", "/api/*",
                 "/v1", "/v1/*", "/files", "/files/*"}

\* The registration exists while the console service is built too.
C4_Witness ==
    /\ Len(albServices) = 1
    /\ Built("Console")
    /\ albServices[1].paths[5] = "/console/api/*"

\* The weight a declared service gives a capacity provider.
WeightOf(s, provider) ==
    LET strategies == fargateService[s].capacityProviderStrategies
    IN  strategies[CHOOSE i \in 1..Len(strategies) :
                      strategies[i].capacityProvider = provider].weight

ServiceDeclared(s) == "taskDefinition" \in DOMAIN fargateService[s]

\* What C5 says of every state: the console service is declared with a
\* desired count of 0, the primary service with none, and once deployed the
\* primary service's count is not 0.
C5_DeclaredCounts ==
    /\ ServiceDeclared("Console") =>
          /\ "desiredCount" \in DOMAIN fargateService["Console"]
          /\ fargateService["Console"].desiredCount = 0
    /\ ServiceDeclared("Api") => "desiredCount" \notin DOMAIN fargateService["Api"]
    /\ Deployed => desiredCount["Api"] # 0

\* C5: the console service is always declared with desired count 0 and the
\* primary service with none (so it gets the provider's non-zero default);
\* the deployment starts the console at 0, its count leaves 0 only by the
\* operator running the printed scale-up command, and the printed scale-down
\* command brings it back to 0.
C5_ConsoleStartsAtZero ==
    /\ [] C5_DeclaredCounts
    /\ [][Deploy => desiredCount'["Console"] = 0 /\ desiredCount'["Api"] # 0]_vars
    /\ [][(Deployed /\ desiredCount["Console"] = 0 /\ desiredCount'["Console"] # 0)
             => RunCommand("ConsoleStartServiceCommand")]_vars
    /\ [][RunCommand("ConsoleStopServiceCommand") => desiredCount'["Console"] = 0]_vars

\* The operator has scaled the console up and a copy of it runs.
C5_Witness ==
    /\ Deployed
    /\ desiredCount["Console"] = 1
    /\ task["Console"].status = "RUNNING"

\* The variables that carry a credential.
CredentialNames ==
    {"DB_USERNAME", "DB_HOST", "DB_PORT", "DB_PASSWORD", "PGVECTOR_USER", "PGVECTOR_HOST",
     "PGVECTOR_PORT", "PGVECTOR_PASSWORD", "REDIS_PASSWORD", "CELERY_BROKER_URL",
     "SECRET_KEY", "CODE_EXECUTION_API_KEY", "INNER_API_KEY_FOR_PLUGIN", "PLUGIN_API_KEY",
     "API_KEY", "DIFY_INNER_API_KEY", "SERVER_KEY", "BEARER_TOKEN"}

\* C6: in both services every entry of every container's secrets map is a
\* reference into Secrets Manager or the parameter store, and no
\* credential-bearing variable appears, with a literal value, in any
\* container's plain environment map.
C6_NoLiteralCredentials ==
    \A s \in Services : \A c \in Declared(s) :
       /\ \A k \in DOMAIN c.secrets : c.secrets[k].kind \in {"SecretsManager", "SsmParameter"}
       /\ \A k \in DOMAIN c.environment : k \notin CredentialNames

\* The set of the elements of a sequence.
Range(seq) == {seq[i] : i \in 1..Len(seq)}

\* C7: the console task role has the same storage and inference permissions
\* as the primary task role: read/write on the same bucket, and a policy
\* statement with the same set of actions and the same resources.
C7_SamePermissions ==
    (Built("Api") /\ Built("Console")) =>
       /\ Console.taskRole.grants = Api.taskRole.grants
       /\ Len(Console.taskRole.statements) = Len(Api.taskRole.statements)
       /\ \A i \in 1..Len(Api.taskRole.statements) :
             /\ Range(Console.taskRole.statements[i].actions) =
                   Range(Api.taskRole.statements[i].actions)
             /\ Range(Console.taskRole.statements[i].resources) =
                   Range(Api.taskRole.statements[i].resources)

\* C8: the primary service weighs FARGATE_SPOT above FARGATE, which has
\* weight 0, so each copy of it is placed on FARGATE_SPOT; the console
\* service weighs the other way round and its copies go to FARGATE; both
\* services enable command execution.
C8_CapacityProviders ==
    /\ ServiceDeclared("Api") =>
          /\ WeightOf("Api", "FARGATE_SPOT") > WeightOf("Api", "FARGATE")
          /\ WeightOf("Api", "FARGATE") = 0
          /\ fargateService["Api"].enableExecuteCommand = TRUE
    /\ ServiceDeclared("Console") =>
          /\ WeightOf("Console", "FARGATE") > WeightOf("Console", "FARGATE_SPOT")
          /\ WeightOf("Console", "FARGATE_SPOT") = 0
          /\ fargateService["Console"].enableExecuteCommand = TRUE
    /\ task["Api"].status # "NONE" => task["Api"].capacityProvider = "FARGATE_SPOT"
    /\ task["Console"].status # "NONE" => task["Console"].capacityProvider = "FARGATE"

\* A copy of each service has been placed.
C8_Witness ==
    /\ task["Api"].status = "RUNNING"
    /\ task["Api"].capacityProvider = "FARGATE_SPOT"
    /\ task["Console"].status = "RUNNING"
    /\ task["Console"].capacityProvider = "FARGATE"

\* C9: in the primary task SandboxFileMount is the only container declared
\* non-essential; in a run, the task is stopped exactly when a container
\* other than SandboxFileMount has exited, so the initializer's exit never
\* stops it; SandboxFileMount mounts the volume sandbox at /dependencies
\* read-write, the Sandbox mounts it there read-only, and no other container
\* mounts it.
C9_OnlyInitializerNonEssential ==
    /\ \A c \in Declared("Api") : c.essential <=> c.containerName # "SandboxFileMount"
    /\ containerStatus # <<>> =>
          (task["Api"].status = "STOPPED" <=>
              \E c \in DOMAIN containerStatus \ {"SandboxFileMount"} :
                 containerStatus[c] = "EXITED")
    /\ Built("Api") =>
          /\ Range(Api.volumes) = {[name |-> "sandbox"]}
          /\ ContainerOf(Api, "SandboxFileMount").mountPoints =
                <<[containerPath |-> "/dependencies", sourceVolume |-> "sandbox",
                   readOnly |-> FALSE]>>
          /\ ContainerOf(Api, "Sandbox").mountPoints =
                <<[containerPath |-> "/dependencies", sourceVolume |-> "sandbox",
                   readOnly |-> TRUE]>>
          /\ \A c \in Declared("Api") :
                c.containerName \notin {"SandboxFileMount", "Sandbox"} => c.mountPoints = <<>>

\* The initializer has exited, even with an error, and the task runs on with
\* the Sandbox started.
C9_Witness ==
    /\ task["Api"].status = "RUNNING"
    /\ "SandboxFileMount" \in DOMAIN exitCode
    /\ exitCode["SandboxFileMount"] = 1
    /\ containerStatus["Sandbox"] = "RUNNING"

\* The caller's plain-value entries and reference entries handed to s.
GivenEnvironment(s) ==
    IF "additionalEnvironmentVariables" \in DOMAIN props[s]
    THEN getAdditionalEnvironmentVariables("api", props[s].additionalEnvironmentVariables)
    ELSE <<>>

GivenSecrets(s) ==
    IF "additionalEnvironmentVariables" \in DOMAIN props[s]
    THEN getAdditionalSecretVariables("api", props[s].additionalEnvironmentVariables)
    ELSE <<>>

\* C10 as claimed: both assemblers merge the caller's map into the Main
\* container's environment and secrets, the caller's value winning: every key
\* of the caller's map is in the result with the caller's value.
C10_BothMergeOverrides ==
    \A s \in Services :
       Built(s) =>
          /\ \A k \in DOMAIN GivenEnvironment(s) :
                /\ k \in DOMAIN ContainerOf(taskDefinition[s], "Main").environment
                /\ ContainerOf(taskDefinition[s], "Main").environment[k] =
                      GivenEnvironment(s)[k]
          /\ \A k \in DOMAIN GivenSecrets(s) :
                /\ k \in DOMAIN ContainerOf(taskDefinition[s], "Main").secrets
                /\ ContainerOf(taskDefinition[s], "Main").secrets[k] = GivenSecrets(s)[k]

\* result is the key-value merge of builtin and given, given winning.
IsOverrideMerge(result, builtin, given) ==
    /\ DOMAIN result = (DOMAIN builtin) \cup (DOMAIN given)
    /\ \A k \in DOMAIN given : result[k] = given[k]
    /\ \A k \in (DOMAIN builtin) \ (DOMAIN given) : result[k] = builtin[k]

\* C10, amended: the console assembler merges the caller's map into its Main
\* container's environment and secrets, the caller's value winning on a key
\* of both, every other key keeping its value and no key added or removed;
\* the primary assembler takes no such map: whatever the caller hands it, its
\* Main container declares the built-in keys with the built-in values.
C10_ConsoleMergesOverrides ==
    /\ Built("Console") =>
          /\ IsOverrideMerge(ContainerOf(Console, "Main").environment,
                             ConsoleBuiltinEnvironment, GivenEnvironment("Console"))
          /\ IsOverrideMerge(ContainerOf(Console, "Main").secrets,
                             DataStoreSecrets, GivenSecrets("Console"))
    /\ Built("Api") =>
          /\ DOMAIN ContainerOf(Api, "Main").environment =
                {"MODE", "LOG_LEVEL", "DEBUG", "CONSOLE_WEB_URL", "CONSOLE_API_URL",
                 "SERVICE_API_URL", "APP_WEB_URL", "SQLALCHEMY_POOL_PRE_PING", "REDIS_HOST",
                 "REDIS_PORT", "REDIS_USE_SSL", "REDIS_DB", "WEB_API_CORS_ALLOW_ORIGINS",
                 "CONSOLE_CORS_ALLOW_ORIGINS", "STORAGE_TYPE", "S3_BUCKET_NAME", "S3_REGION",
                 "DB_DATABASE", "VECTOR_STORE", "PGVECTOR_DATABASE",
                 "CODE_EXECUTION_ENDPOINT", "PLUGIN_DAEMON_URL"}
          /\ ContainerOf(Api, "Main").environment.MODE = "api"
          /\ ContainerOf(Api, "Main").environment.LOG_LEVEL \in {"DEBUG", "ERROR"}
          /\ DOMAIN ContainerOf(Api, "Main").secrets =
                (DOMAIN DataStoreSecrets) \cup
                {"SECRET_KEY", "CODE_EXECUTION_API_KEY", "INNER_API_KEY_FOR_PLUGIN",
                 "PLUGIN_API_KEY"}
          /\ ContainerOf(Api, "Main").secrets.DB_PASSWORD =
                [kind |-> "SecretsManager", secret |-> "postgres.secret",
                 field |-> "password"]

\* The console was built from a map that names the built-in variable MODE, a
\* variable of its own and a secret of its own: MODE has the caller's value,
\* the caller's own entries are there, and a variable the caller did not name
\* keeps its built-in value.
C10_Witness ==
    /\ Built("Console")
    /\ "MODE" \in DOMAIN GivenEnvironment("Console")
    /\ ContainerOf(Console, "Main").environment.MODE = "console"
    /\ ContainerOf(Console, "Main").environment.EXTRA_FLAG = "1"
    /\ ContainerOf(Console, "Main").environment.REDIS_DB = "0"
    /\ "EXTRA_TOKEN" \in DOMAIN ContainerOf(Console, "Main").secrets

\* The secrets the constructors receive in their props rather than generate.
PropsSecrets == {"postgres.secret", "redis.secret"}

\* The primary task definition declares a container of this name.
IsDeclared(name) == \E c \in Declared("Api") : c.containerName = name

\* The reference a container of the primary task holds under a secret name.
SecretOf(name, key) == ContainerOf(Api, name).secrets[key]

\* The caller/callee credential slots of the primary task: the caller sends
\* what it holds under callerKey, the callee compares it with calleeKey.
CredentialPairs ==
    {[caller |-> "Main",         callerKey |-> "CODE_EXECUTION_API_KEY",
      callee |-> "Sandbox",      calleeKey |-> "API_KEY"],
     [caller |-> "PluginDaemon", callerKey |-> "CODE_EXECUTION_API_KEY",
      callee |-> "Sandbox",      calleeKey |-> "API_KEY"],
     [caller |-> "Main",         callerKey |-> "PLUGIN_API_KEY",
      callee |-> "PluginDaemon", calleeKey |-> "SERVER_KEY"],
     [caller |-> "Worker",       callerKey |-> "PLUGIN_API_KEY",
      callee |-> "PluginDaemon", calleeKey |-> "SERVER_KEY"],
     [caller |-> "Main",         callerKey |-> "INNER_API_KEY_FOR_PLUGIN",
      callee |-> "PluginDaemon", calleeKey |-> "DIFY_INNER_API_KEY"],
     [caller |-> "Main",         callerKey |-> "SECRET_KEY",
      callee |-> "Worker",       calleeKey |-> "SECRET_KEY"],
     [caller |-> "Main",         callerKey |-> "SECRET_KEY",
      callee |-> "PluginDaemon", calleeKey |-> "SECRET_KEY"],
     [caller |-> "Worker",       callerKey |-> "SECRET_KEY",
      callee |-> "PluginDaemon", calleeKey |-> "SECRET_KEY"]}

\* C11: the primary constructor generates exactly one secret, EncryptionSecret;
\* at every point of construction a container's reference to a secret that
\* was not passed in by the props names a secret that already exists; and in
\* every caller/callee credential pair of the task both slots are there and
\* hold the same reference, to the whole of EncryptionSecret (Main and
\* PluginDaemon CODE_EXECUTION_API_KEY with Sandbox API_KEY, Main and Worker
\* PLUGIN_API_KEY with PluginDaemon SERVER_KEY, Main INNER_API_KEY_FOR_PLUGIN
\* with PluginDaemon DIFY_INNER_API_KEY, SECRET_KEY of Main, Worker and
\* PluginDaemon), whatever the props.
C11_OneSharedSecret ==
    /\ \A s \in secrets : s.id = "EncryptionSecret"
    /\ Cardinality(secrets) <= 1
    /\ pc["Api"] \notin {"Task", "EncryptionSecret"} => Cardinality(secrets) = 1
    /\ \A c \in Declared("Api") : \A k \in DOMAIN c.secrets :
          (c.secrets[k].kind = "SecretsManager" /\ c.secrets[k].secret \notin PropsSecrets)
             => \E s \in secrets : s.id = c.secrets[k].secret
    /\ \A pair \in CredentialPairs :
          /\ IsDeclared(pair.caller) =>
                pair.callerKey \in DOMAIN ContainerOf(Api, pair.caller).secrets
          /\ IsDeclared(pair.callee) =>
                pair.calleeKey \in DOMAIN ContainerOf(Api, pair.callee).secrets
          /\ (IsDeclared(pair.caller) /\ IsDeclared(pair.callee)) =>
                /\ SecretOf(pair.caller, pair.callerKey) = SecretOf(pair.callee, pair.calleeKey)
                /\ SecretOf(pair.caller, pair.callerKey) =
                      [kind |-> "SecretsManager", secret |-> "EncryptionSecret"]
    /\ Built("Api") => \A pair \in CredentialPairs :
          IsDeclared(pair.caller) /\ IsDeclared(pair.callee)

\* The primary task runs with Main, the Sandbox and the PluginDaemon up, each
\* holding a reference to the one generated secret.
C11_Witness ==
    /\ Built("Api")
    /\ secrets = {[id |-> "EncryptionSecret", passwordLength |-> 42]}
    /\ task["Api"].status = "RUNNING"
    /\ containerStatus["Main"] = "RUNNING"
    /\ containerStatus["Sandbox"] = "RUNNING"
    /\ containerStatus["PluginDaemon"] = "RUNNING"
    /\ SecretOf("Main", "CODE_EXECUTION_API_KEY").secret = "EncryptionSecret"
    /\ SecretOf("Sandbox", "API_KEY").secret = "EncryptionSecret"
    /\ SecretOf("PluginDaemon", "SERVER_KEY").secret = "EncryptionSecret"

\* The container ports a container definition declares.
PortsOf(c) == {c.portMappings[i].containerPort : i \in 1..Len(c.portMappings)}

\* The URL of a port of the task's own network namespace.
Loopback(n) == "http://localhost:" \o ToString(n)

\* The loopback endpoints of the primary task: the holder is given the URL
\* under key, and the target is the container expected to listen there.
LoopbackEndpoints ==
    {[holder |-> "Main",         key |-> "CODE_EXECUTION_ENDPOINT",
      target |-> "Sandbox",      port |-> 8194],
     [holder |-> "PluginDaemon", key |-> "CODE_EXECUTION_ENDPOINT",
      target |-> "Sandbox",      port |-> 8194],
     [holder |-> "Main",         key |-> "PLUGIN_DAEMON_URL",
      target |-> "PluginDaemon", port |-> 5002],
     [holder |-> "Worker",       key |-> "PLUGIN_API_URL",
      target |-> "PluginDaemon", port |-> 5002],
     [holder |-> "PluginDaemon", key |-> "DIFY_INNER_API_URL",
      target |-> "Main",         port |-> 5001]}

\* C12: in the primary task, whatever the props, every loopback endpoint a
\* container is given is http://localhost:<port> for the one port its target
\* container declares: CODE_EXECUTION_ENDPOINT of Main and PluginDaemon is
\* port 8194, the Sandbox's; PLUGIN_DAEMON_URL of Main and PLUGIN_API_URL of
\* the Worker are port 5002, the PluginDaemon's port mapping and SERVER_PORT;
\* DIFY_INNER_API_URL of the PluginDaemon is port 5001, which is Main's port
\* mapping, the port of Main's health check and the load balancer's target
\* port; and no two containers of the task declare the same container port.
C12_LoopbackPortsMatch ==
    /\ \A e \in LoopbackEndpoints :
          /\ IsDeclared(e.holder) =>
                /\ e.key \in DOMAIN ContainerOf(Api, e.holder).environment
                /\ ContainerOf(Api, e.holder).environment[e.key] = Loopback(e.port)
          /\ IsDeclared(e.target) => PortsOf(ContainerOf(Api, e.target)) = {e.port}
    /\ IsDeclared("PluginDaemon") =>
          ContainerOf(Api, "PluginDaemon").environment.SERVER_PORT = ToString(5002)
    /\ IsDeclared("Main") =>
          /\ "healthCheck" \in DOMAIN ContainerOf(Api, "Main")
          /\ ContainerOf(Api, "Main").healthCheck.command =
                <<"CMD-SHELL", "curl -f " \o Loopback(5001) \o "/health || exit 1">>
    /\ \A i \in 1..Len(albServices) :
          albServices[i].service = "Api" => albServices[i].port = 5001
    /\ Built("Api") => \E i \in 1..Len(albServices) : albServices[i].service = "Api"
    /\ \A c \in Declared("Api") : \A d \in Declared("Api") :
          c.containerName # d.containerName => PortsOf(c) \cap PortsOf(d) = {}
    /\ Built("Api") =>
          /\ \A e \in LoopbackEndpoints : IsDeclared(e.holder) /\ IsDeclared(e.target)
          /\ PortsOf(ContainerOf(Api, "Worker")) = {}
          /\ PortsOf(ContainerOf(Api, "SandboxFileMount")) = {}
          /\ PortsOf(ContainerOf(Api, "ExternalKnowledgeBaseAPI")) = {8000}

\* The primary task runs, built from props that ask for the debug logging and
\* a sandbox image of their own, with the three listening containers up and
\* the service registered with the load balancer: the endpoints are the
\* fixed ones.
C12_Witness ==
    /\ Built("Api")
    /\ props["Api"].sandboxImageTag = "0.2.10"
    /\ "debug" \in DOMAIN props["Api"]
    /\ task["Api"].status = "RUNNING"
    /\ containerStatus["Main"] = "RUNNING"
    /\ containerStatus["Sandbox"] = "RUNNING"
    /\ containerStatus["PluginDaemon"] = "RUNNING"
    /\ ContainerOf(Api, "Main").environment.CODE_EXECUTION_ENDPOINT = "http://localhost:8194"
    /\ ContainerOf(Api, "Worker").environment.PLUGIN_API_URL = "http://localhost:5002"
    /\ ContainerOf(Api, "PluginDaemon").environment.DIFY_INNER_API_URL = "http://localhost:5001"
    /\ Len(albServices) = 1

====
